---- MODULE Spec2Model ----
(***************************************************************************)
(* Model of src/src/srcApp.jsx (kenovenas/sinais): the React component     *)
(* that, every five minutes, fetches closing prices for five assets,       *)
(* computes indicators, votes a signal and stamps it with aligned times.   *)
(*                                                                         *)
(* The specifications share the variables:                                 *)
(*   SpecSched     mount, timer chain and cycles (retrievals all succeed)  *)
(*   SpecCycle     one invocation of updateAllAssets, every retrieval      *)
(*                 outcome (error, short series, hang, escaping exception) *)
(*   FairSpecCycle SpecCycle with the event loop's fairness                *)
(*   SpecTime      the timestamp block of analyzeAsset                     *)
(*   SpecVote      the voting rule on the bundles analyzeAsset computes    *)
(*   SpecVoteRule  the voting rule on every bundle the calculators' return *)
(*                 types allow                                             *)
(*   SpecMomentum  calculateMomentum                                       *)
(***************************************************************************)
EXTENDS Integers, Sequences, FiniteSets, TLC

VARIABLES
    \* ---- component state (useState) and scheduling ----
    now,            \* wall clock, in ticks (TicksPerMinute ticks per minute)
    mounted,        \* the useEffect body has run
    timer,          \* the pending setTimeout of scheduleNextUpdate
    signals,        \* React state `signals`: asset -> slot
    loading,        \* React state `loading`
    error,          \* React state `error`
    nCycles,        \* number of updateAllAssets invocations so far
    phase,          \* per invocation: "idle" | "running" | "done" | "failed"
    origin,         \* per invocation: "direct" (line 212) | "timer" (line 207)
    st,             \* per invocation and asset: position of analyzeAsset
    lens,           \* per invocation and asset: prices.length, while analyzeAsset holds prices
    updatedSignals, \* per invocation: the local object updatedSignals
    publishedBy,    \* the invocation whose setSignals call wrote `signals`
    \* ---- timestamp block ----
    refNow,         \* `now` of line 141, in seconds
    stamp,          \* the timestamp record of the AssetResult
    \* ---- voting rule ----
    bundle,         \* rsi, macd, momentum, bollinger, ema, lastPrice
    vote,           \* buyCount, sellCount, signalType or the thrown error
    \* ---- calculateMomentum ----
    prices,         \* the price series
    momentum        \* the value returned

vars == <<now, mounted, timer, signals, loading, error, nCycles, phase, origin,
          st, lens, updatedSignals, publishedBy, refNow, stamp,
          bundle, vote, prices, momentum>>

schedVars == <<now, mounted, timer, signals, loading, error, nCycles, phase,
               origin, st, lens, updatedSignals, publishedBy>>
timeVars == <<refNow, stamp>>
voteVars == <<bundle, vote>>
momVars == <<prices, momentum>>

----------------------------------------------------------------------------
(* Bounds of the model *)

\* updateAllAssets invocations modelled in SpecSched
MaxCycles == 2
\* clock resolution: ticks per minute
TicksPerMinute == 2
\* minutes of wall clock explored after the earliest mount instant
HorizonMinutes == 3
\* minutes of wall clock in which the component may mount
MountMinutes == 2
\* longest price series given to calculateMomentum
MaxLen == 12

----------------------------------------------------------------------------
(* Assets and snapshot slots *)

assets == <<"BTC", "XRP", "BNB", "ADA", "LTC">>

AssetSet == {assets[i] : i \in 1..Len(assets)}

AssetIndex(a) == CHOOSE i \in 1..Len(assets) : assets[i] = a

Null == [kind |-> "null", symbol |-> "-"]

Unset == [kind |-> "unset", symbol |-> "-"]

\* the object returned by analyzeAsset, reduced to its symbol
AssetResult(a) == [kind |-> "result", symbol |-> a]

InitialSignals == [a \in AssetSet |-> Null]

EmptyObject == [a \in AssetSet |-> Unset]

Cycles == 1..MaxCycles

----------------------------------------------------------------------------
(* Wall clock and scheduleNextUpdate (lines 197-210) *)

\* grid step of line 200, in minutes
GridMinutes == 5

MinutesPerHour == 60

TicksPerHour == MinutesPerHour * TicksPerMinute

\* mount instants explored: every tick of the minutes :59 (before a grid
\* mark, across the hour's end) and :00 (on and just after a grid mark)
FirstMount == (MinutesPerHour - 1) * TicksPerMinute

MountTimes == FirstMount .. (FirstMount + MountMinutes * TicksPerMinute - 1)

MaxTime == FirstMount + HorizonMinutes * TicksPerMinute

\* Date.prototype.getMinutes
GetMinutes(t) == (t \div TicksPerMinute) % MinutesPerHour

\* Date.prototype.setMinutes(m, 0, 0): minute m of the same hour, seconds and
\* milliseconds zeroed; m = 60 rolls over into the next hour
SetMinutes(t, m) == (t - (t % TicksPerHour)) + m * TicksPerMinute

\* Math.ceil(minutes / 5) * 5
NextMultiple(minutes) == ((minutes + GridMinutes - 1) \div GridMinutes) * GridMinutes

NextUpdate(t) == SetMinutes(t, NextMultiple(GetMinutes(t)))

IsGridMark(t) == t % (GridMinutes * TicksPerMinute) = 0

NoTimer == [armed |-> FALSE, at |-> 0, delay |-> 0]

\* the timer scheduleNextUpdate arms when it runs at instant t
ScheduleNextUpdate(t) ==
    [armed |-> TRUE, at |-> NextUpdate(t), delay |-> NextUpdate(t) - t]

\* line 208: only the timer callback awaits the cycle and re-arms the timer
TimerAfterCycle(c) == IF origin[c] = "timer" THEN ScheduleNextUpdate(now) ELSE timer

----------------------------------------------------------------------------
(* fetchKlines and the guard of analyzeAsset *)

\* line 105
MinPrices == 20

\* sizes of the array the data source answers with
ResponseSizes == {MinPrices - 1, MinPrices}

Responses == [ok : BOOLEAN, n : ResponseSizes]

\* fetchKlines: the closing prices of the response, [] on any caught error
PricesLength(r) == IF r.ok THEN r.n ELSE 0

\* variant: the guard written with <= in place of <
HasEnoughPricesOffByOne(n) == n > MinPrices

\* line 105: if (prices.length < 20) return null
HasEnoughPrices(n) == n >= MinPrices

\* variant: the analyses awaited one after the other, in array order
CanAnalyzeInOrder(c, a) ==
    /\ st[c][a] = "fetched"
    /\ \A i \in 1..(AssetIndex(a) - 1) : st[c][assets[i]] = "written"

\* line 183: the continuation of an analysis runs as soon as its own retrieval
\* has returned
CanAnalyze(c, a) == st[c][a] = "fetched"

\* variant: setSignals(updatedSignals) moved into the finally block
SignalsOnRejectPartial(c) == updatedSignals[c]

\* lines 188-189: the catch block records the error and leaves `signals` alone
SignalsOnReject(c) == signals

----------------------------------------------------------------------------
(* updateAllAssets (lines 176-193) *)

\* lines 177-183: the synchronous part, up to the five fetch calls
UpdateAllAssetsBegin(c, o) ==
    /\ loading' = TRUE
    /\ error' = "null"
    /\ nCycles' = c
    /\ phase' = [phase EXCEPT ![c] = "running"]
    /\ origin' = [origin EXCEPT ![c] = o]
    /\ st' = [st EXCEPT ![c] = [a \in AssetSet |-> "fetching"]]
    /\ updatedSignals' = [updatedSignals EXCEPT ![c] = EmptyObject]

\* lines 21-32: the retrieval of asset a returns (prices or, on a caught
\* error, the empty series)
FetchSettle(c, a, r) ==
    /\ st[c][a] = "fetching"
    /\ st' = [st EXCEPT ![c][a] = "fetched"]
    /\ lens' = [lens EXCEPT ![c][a] = PricesLength(r)]
    /\ UNCHANGED <<now, mounted, timer, signals, loading, error, nCycles, phase,
                   origin, updatedSignals, publishedBy>>

\* the data source never answers the request of asset a
FetchHang(c, a) ==
    /\ st[c][a] = "fetching"
    /\ st' = [st EXCEPT ![c][a] = "hung"]
    /\ UNCHANGED <<now, mounted, timer, signals, loading, error, nCycles, phase,
                   origin, lens, updatedSignals, publishedBy>>

\* an exception escapes analyzeAsset: Promise.all rejects at once and, for the
\* first such exception of the invocation, the catch and finally blocks run
\* (lines 188-192), then the awaiting timer callback re-arms the timer
AnalyzeThrow(c, a) ==
    /\ st[c][a] = "fetching"
    /\ st' = [st EXCEPT ![c][a] = "threw"]
    /\ IF phase[c] = "running"
       THEN /\ phase' = [phase EXCEPT ![c] = "failed"]
            /\ error' = "Erro ao carregar sinais"
            /\ loading' = FALSE
            /\ signals' = SignalsOnReject(c)
            /\ timer' = TimerAfterCycle(c)
       ELSE UNCHANGED <<phase, error, loading, signals, timer>>
    /\ UNCHANGED <<now, mounted, nCycles, origin, lens, updatedSignals,
                   publishedBy>>

\* lines 105-184: the analysis of asset a writes its slot and returns (its
\* local `prices` is gone); when it is the last one, Promise.all fulfils and
\* lines 187 and 191 publish the snapshot
AnalyzeAsset(c, a) ==
    /\ CanAnalyze(c, a)
    /\ st' = [st EXCEPT ![c][a] = "written"]
    /\ lens' = [lens EXCEPT ![c][a] = 0]
    /\ updatedSignals' = [updatedSignals EXCEPT ![c][a] =
          IF HasEnoughPrices(lens[c][a]) THEN AssetResult(a) ELSE Null]
    /\ IF phase[c] = "running" /\ \A b \in AssetSet \ {a} : st[c][b] = "written"
       THEN /\ phase' = [phase EXCEPT ![c] = "done"]
            /\ signals' = updatedSignals'[c]
            /\ publishedBy' = c
            /\ loading' = FALSE
            /\ timer' = TimerAfterCycle(c)
       ELSE UNCHANGED <<phase, signals, publishedBy, loading, timer>>
    /\ UNCHANGED <<now, mounted, error, nCycles, origin>>

----------------------------------------------------------------------------
(* useEffect (lines 196-214) and the clock *)

\* lines 212-213: first cycle at once, not awaited, then scheduleNextUpdate
Mount ==
    /\ ~mounted
    /\ mounted' = TRUE
    /\ UpdateAllAssetsBegin(1, "direct")
    /\ timer' = ScheduleNextUpdate(now)
    /\ UNCHANGED <<now, signals, lens, publishedBy>>

\* lines 206-207: the timer fires (at once when the delay is not positive)
TimerFire ==
    /\ timer.armed
    /\ now >= timer.at
    /\ nCycles < MaxCycles
    /\ UpdateAllAssetsBegin(nCycles + 1, "timer")
    /\ timer' = NoTimer
    /\ UNCHANGED <<now, mounted, signals, lens, publishedBy>>

TimerDue == timer.armed /\ now >= timer.at /\ nCycles < MaxCycles

\* time passes; a due timer fires before the clock moves on
Tick ==
    /\ mounted
    /\ ~TimerDue
    /\ now < MaxTime
    /\ now' = now + 1
    /\ UNCHANGED <<mounted, timer, signals, loading, error, nCycles, phase, origin,
                   st, lens, updatedSignals, publishedBy>>

----------------------------------------------------------------------------
(* Initial states *)

IdleCycles ==
    /\ nCycles = 0
    /\ phase = [c \in Cycles |-> "idle"]
    /\ origin = [c \in Cycles |-> "direct"]
    /\ st = [c \in Cycles |-> [a \in AssetSet |-> "idle"]]
    /\ lens = [c \in Cycles |-> [a \in AssetSet |-> 0]]
    /\ updatedSignals = [c \in Cycles |-> EmptyObject]
    /\ publishedBy = 0

SchedIdle ==
    /\ now = 0
    /\ mounted = TRUE
    /\ timer = NoTimer
    /\ signals = InitialSignals
    /\ loading = FALSE
    /\ error = "null"
    /\ IdleCycles

TimeIdle == refNow = 0 /\ stamp = <<>>

VoteIdle == bundle = <<>> /\ vote = <<>>

NotComputed == [kind |-> "unset", num |-> 0, den |-> 1]

MomIdle == prices = <<>> /\ momentum = NotComputed

\* lines 4-12: the state after construction, at any mount instant
InitSched ==
    /\ now \in MountTimes
    /\ mounted = FALSE
    /\ timer = NoTimer
    /\ signals = InitialSignals
    /\ loading = TRUE
    /\ error = "null"
    /\ IdleCycles
    /\ TimeIdle /\ VoteIdle /\ MomIdle

\* a snapshot an earlier cycle has left in `signals`
EarlierSnapshot == [a \in AssetSet |-> AssetResult(a)]

\* the timer armed by an earlier scheduleNextUpdate, now due
DueTimer == [armed |-> TRUE, at |-> 0, delay |-> GridMinutes * TicksPerMinute]

\* the two situations an invocation of updateAllAssets starts from: the
\* component about to mount, or the timer of a later grid mark about to fire
\* with an earlier snapshot on display
InitCycle ==
    /\ now = 0
    /\ \/ /\ mounted = FALSE
          /\ timer = NoTimer
          /\ signals = InitialSignals
          /\ loading = TRUE
       \/ /\ mounted = TRUE
          /\ timer = DueTimer
          /\ signals = EarlierSnapshot
          /\ loading = FALSE
    /\ error = "null"
    /\ IdleCycles
    /\ TimeIdle /\ VoteIdle /\ MomIdle

----------------------------------------------------------------------------
(* Specifications of the scheduler and of one cycle *)

\* the size the data source answers with when nothing goes wrong (limit=200
\* is longer; only the comparison with MinPrices matters)
FullResponse == [ok |-> TRUE, n |-> MinPrices]

NextSched ==
    \/ (Mount /\ UNCHANGED <<timeVars, voteVars, momVars>>)
    \/ (TimerFire /\ UNCHANGED <<timeVars, voteVars, momVars>>)
    \/ (Tick /\ UNCHANGED <<timeVars, voteVars, momVars>>)
    \/ \E c \in Cycles, a \in AssetSet :
          (FetchSettle(c, a, FullResponse) /\ UNCHANGED <<timeVars, voteVars, momVars>>)
    \/ \E c \in Cycles, a \in AssetSet :
          (AnalyzeAsset(c, a) /\ UNCHANGED <<timeVars, voteVars, momVars>>)

SpecSched == InitSched /\ [][NextSched]_vars

\* one invocation, followed to its end and to the end of its analyses
NextCycle ==
    \/ (Mount /\ UNCHANGED <<timeVars, voteVars, momVars>>)
    \/ (nCycles = 0 /\ TimerFire /\ UNCHANGED <<timeVars, voteVars, momVars>>)
    \/ \E a \in AssetSet, r \in Responses :
          (FetchSettle(1, a, r) /\ UNCHANGED <<timeVars, voteVars, momVars>>)
    \/ \E a \in AssetSet :
          (FetchHang(1, a) /\ UNCHANGED <<timeVars, voteVars, momVars>>)
    \/ \E a \in AssetSet :
          (AnalyzeThrow(1, a) /\ UNCHANGED <<timeVars, voteVars, momVars>>)
    \/ \E a \in AssetSet :
          (AnalyzeAsset(1, a) /\ UNCHANGED <<timeVars, voteVars, momVars>>)

SpecCycle == InitCycle /\ [][NextCycle]_vars

\* the event loop keeps running ready continuations: while some analysis whose
\* retrieval has returned is waiting, one of them is eventually resumed
FairSpecCycle ==
    /\ SpecCycle
    /\ WF_vars(\E a \in AssetSet :
                  AnalyzeAsset(1, a) /\ UNCHANGED <<timeVars, voteVars, momVars>>)

----------------------------------------------------------------------------
(* Claims about the scheduler (SpecSched) *)

Running == {c \in Cycles : phase[c] = "running"}

\* C1: cycles never overlap: no invocation of updateAllAssets begins while an
\* earlier one has not finished, so at most one invocation is unfinished at
\* any time.
C1_CyclesNeverOverlap == Cardinality(Running) <= 1

\* C2: whenever scheduleNextUpdate has run, the instant it scheduled is a
\* 5-minute grid mark strictly later than the instant it ran at, so the timer
\* delay is positive.
C2_NextMarkStrictlyLater ==
    timer.armed => (timer.delay > 0 /\ IsGridMark(timer.at))

\* C10: a snapshot is published in one step by an invocation all of whose five
\* slots are written, `signals` changes in no other step, and the publishing
\* invocation never started earlier than the one that published last.
C10_SnapshotFreshness ==
    [][/\ \A c \in Cycles :
             (phase[c] = "running" /\ phase'[c] = "done") =>
                /\ signals' = updatedSignals'[c]
                /\ \A a \in AssetSet : signals'[a].kind # "unset"
                /\ c >= publishedBy
       /\ signals' # signals =>
             \E c \in Cycles : phase[c] = "running" /\ phase'[c] = "done"]_vars

----------------------------------------------------------------------------
(* Claims about one cycle (SpecCycle, FairSpecCycle) *)

\* C3: the step in which an invocation fails (Promise.all rejects) records the
\* error and leaves `signals` exactly as it was.
C3_FailedCycleKeepsSnapshot ==
    [][\A c \in Cycles :
          (phase[c] = "running" /\ phase'[c] = "failed") =>
             (signals' = signals /\ error' = "Erro ao carregar sinais")]_vars

\* a cycle has failed after some of its slots were written, and the previous
\* snapshot, with results in it, is still the published one
C3_Witness ==
    /\ phase[1] = "failed"
    /\ error = "Erro ao carregar sinais"
    /\ \E a \in AssetSet : updatedSignals[1][a] = Null
    /\ \A a \in AssetSet : signals[a] = AssetResult(a)

\* C4: the step in which asset A's analysis finishes writes an AssetResult to
\* A's slot exactly when A's own retrieval returned at least 20 prices and
\* null otherwise (an errored retrieval returns none), changes no other
\* asset's slot and does not fail the cycle; the step that completes the cycle
\* publishes exactly these slots.
C4_PerAssetIsolation ==
    [][\A c \in Cycles :
          /\ \A a \in AssetSet :
                (st[c][a] = "fetched" /\ st'[c][a] = "written") =>
                   /\ lens[c][a] >= MinPrices => updatedSignals'[c][a] = AssetResult(a)
                   /\ lens[c][a] < MinPrices => updatedSignals'[c][a] = Null
                   /\ \A b \in AssetSet \ {a} :
                         updatedSignals'[c][b] = updatedSignals[c][b]
                   /\ phase[c] = "running" => phase'[c] # "failed"
          /\ (phase[c] = "running" /\ phase'[c] = "done") =>
                signals' = updatedSignals'[c]]_vars

\* a published snapshot in which some retrievals came back short (or errored)
\* and others did not: null slots beside AssetResults, no error recorded
C4_Witness ==
    /\ phase[1] = "done"
    /\ publishedBy = 1
    /\ error = "null"
    /\ \E a, b \in AssetSet :
          /\ signals[a] = Null
          /\ signals[b] = AssetResult(b)

Unsettled(c) == {a \in AssetSet : st[c][a] \in {"fetching", "hung", "fetched"}}

----------------------------------------------------------------------------
(* The timestamp block of analyzeAsset (lines 140-171); instants in seconds   *)
(* of local time, no daylight-saving change inside the window                 *)

SecondsPerMinute == 60

HoursPerDay == 24

SecondsPerHour == SecondsPerMinute * MinutesPerHour

SecondsPerDay == SecondsPerHour * HoursPerDay

MinutesPerDay == MinutesPerHour * HoursPerDay

\* line 146: 180000 ms
SignalLeadSeconds == 180

\* reference instants: every second of one day (the day before and the day
\* after exist, so that instants near midnight have both neighbours)
DayStart == SecondsPerDay

RefInstants == DayStart .. (DayStart + SecondsPerDay - 1)

\* Date.prototype.setSeconds(0, 0)
SetSecondsZero(t) == t - (t % SecondsPerMinute)

\* Date.prototype.getMinutes on an instant in seconds
GetMinutesOf(t) == (t \div SecondsPerMinute) % MinutesPerHour

\* Date.prototype.setMinutes(m): the seconds are kept, m = 60 rolls the hour
SetMinutesOf(t, m) == t - GetMinutesOf(t) * SecondsPerMinute + m * SecondsPerMinute

\* variant: rounding up to a minute, which keeps an instant already on one
NextMinuteCeil(t) ==
    ((t + SecondsPerMinute - 1) \div SecondsPerMinute) * SecondsPerMinute

\* lines 142-144: the next full minute
NextMinute(t) == SetMinutesOf(SetSecondsZero(t), GetMinutesOf(SetSecondsZero(t)) + 1)

\* lines 148-149: toTimeString().slice(0, 5), the pair <<hour, minute>>
FormatTime(t) ==
    <<(t \div SecondsPerHour) % HoursPerDay, (t \div SecondsPerMinute) % MinutesPerHour>>

\* lines 166-171
Timestamp(t) ==
    [generatedAt |-> FormatTime(NextMinute(t) - SignalLeadSeconds),
     executeAt   |-> FormatTime(NextMinute(t)),
     protection1 |-> FormatTime(NextMinute(t) + SecondsPerMinute),
     protection2 |-> FormatTime(NextMinute(t) + 2 * SecondsPerMinute)]

InitTime ==
    /\ refNow \in RefInstants
    /\ stamp = <<>>
    /\ SchedIdle /\ VoteIdle /\ MomIdle

\* analyzeAsset reads the clock and stamps the result
StampResult ==
    /\ stamp = <<>>
    /\ stamp' = Timestamp(refNow)
    /\ UNCHANGED <<refNow, schedVars, voteVars, momVars>>

NextTime == StampResult

SpecTime == InitTime /\ [][NextTime]_vars

\* minute of the day named by an <<hour, minute>> pair
MinuteOfDay(hm) == hm[1] * MinutesPerHour + hm[2]

\* minute of the day that contains instant t
MinuteOfDayAt(t) == (t \div SecondsPerMinute) % MinutesPerDay

\* C5: executeAt names the first minute boundary strictly after the reference
\* instant (hence at most 60 s after it), generatedAt is three minutes before
\* it, protection1 one minute and protection2 two minutes after it, all as
\* hour:minute of the day, wrapping at 24:00.
C5_TimeAligner ==
    stamp # <<>> =>
       /\ stamp.executeAt[1] \in 0..(HoursPerDay - 1)
       /\ stamp.executeAt[2] \in 0..(MinutesPerHour - 1)
       /\ MinuteOfDay(stamp.executeAt) = (MinuteOfDayAt(refNow) + 1) % MinutesPerDay
       /\ MinuteOfDay(stamp.generatedAt) =
             (MinuteOfDay(stamp.executeAt) + MinutesPerDay - 3) % MinutesPerDay
       /\ MinuteOfDay(stamp.protection1) =
             (MinuteOfDay(stamp.executeAt) + 1) % MinutesPerDay
       /\ MinuteOfDay(stamp.protection2) =
             (MinuteOfDay(stamp.executeAt) + 2) % MinutesPerDay
       /\ NextMinute(refNow) % SecondsPerMinute = 0
       /\ NextMinute(refNow) > refNow
       /\ NextMinute(refNow) - refNow <= SecondsPerMinute

\* a result stamped at 23:59:00 sharp: executeAt 00:00, generatedAt 23:57
C5_Witness ==
    /\ stamp # <<>>
    /\ refNow % SecondsPerMinute = 0
    /\ FormatTime(refNow) = <<23, 59>>
    /\ stamp.executeAt = <<0, 0>>
    /\ stamp.generatedAt = <<23, 57>>
    /\ stamp.protection2 = <<0, 2>>

----------------------------------------------------------------------------
(* The voting rule of analyzeAsset (lines 113-133)                            *)
(* RSI in whole points, MACD and Momentum in thousandths, prices in whole     *)
(* units, buyCount and sellCount in half points (the code adds 0.5 and 1.5)   *)

\* a JavaScript value that is a number or null
Num(v) == [isNull |-> FALSE, v |-> v]

NullNum == [isNull |-> TRUE, v |-> 0]

\* ToNumber, as the relational operators apply it: null becomes 0
ToNumber(x) == IF x.isNull THEN 0 ELSE x.v

JsLt(x, k) == ToNumber(x) < k

JsGt(x, k) == ToNumber(x) > k

\* n points, in half points
Points(n) == 2 * n

HalfPoint == 1

RsiLow == 30

RsiHigh == 70

RsiMidLow == 40

RsiMidHigh == 60

\* line 120: 0.001, in thousandths
MacdEpsilon == 1

\* line 123: 1.005, in thousandths
MomentumHigh == 1005

\* line 124: 0.995, in thousandths
MomentumLow == 995

Abs(x) == IF x < 0 THEN -x ELSE x

\* lines 116-118
RsiRule(rsi) ==
    IF JsLt(rsi, RsiLow) THEN [buy |-> Points(2), sell |-> 0]
    ELSE IF JsGt(rsi, RsiHigh) THEN [buy |-> 0, sell |-> Points(2)]
    ELSE IF ~JsLt(rsi, RsiMidLow) /\ ~JsGt(rsi, RsiMidHigh)
         THEN [buy |-> HalfPoint, sell |-> 0]
    ELSE [buy |-> 0, sell |-> 0]

\* lines 120-121
MacdRule(macd) ==
    IF macd.line > macd.signal /\ Abs(macd.line - macd.signal) > MacdEpsilon
    THEN [buy |-> Points(1) + HalfPoint, sell |-> 0]
    ELSE IF macd.line < macd.signal /\ Abs(macd.line - macd.signal) > MacdEpsilon
    THEN [buy |-> 0, sell |-> Points(1) + HalfPoint]
    ELSE [buy |-> 0, sell |-> 0]

\* lines 123-124
MomentumRule(m) ==
    IF JsGt(m, MomentumHigh) THEN [buy |-> Points(1), sell |-> 0]
    ELSE IF JsLt(m, MomentumLow) THEN [buy |-> 0, sell |-> Points(1)]
    ELSE [buy |-> 0, sell |-> 0]

\* lines 126-127, for a bollinger object
BollingerRule(b) ==
    IF b.price < b.lower THEN [buy |-> Points(2), sell |-> 0]
    ELSE IF b.price > b.upper THEN [buy |-> 0, sell |-> Points(2)]
    ELSE [buy |-> 0, sell |-> 0]

\* lines 129-131
EmaRule(lastPrice, ema) ==
    IF lastPrice > ema THEN [buy |-> Points(1), sell |-> 0]
    ELSE [buy |-> 0, sell |-> Points(1)]

\* variant: the decision written with >= in place of >
SignalTypeLoose(buyCount, sellCount) ==
    IF buyCount >= sellCount + Points(1) THEN "COMPRA"
    ELSE IF sellCount >= buyCount + Points(1) THEN "VENDA"
    ELSE "NEUTRO"

\* line 133
SignalType(buyCount, sellCount) ==
    IF buyCount > sellCount + Points(1) THEN "COMPRA"
    ELSE IF sellCount > buyCount + Points(1) THEN "VENDA"
    ELSE "NEUTRO"

\* lines 113-133 on one indicator bundle; reading bollinger.price of null
\* (line 126) throws a TypeError
Vote(b) ==
    IF b.bollinger.isNull
    THEN [thrown |-> TRUE, buyCount |-> 0, sellCount |-> 0, signalType |-> "-"]
    ELSE LET r == RsiRule(b.rsi)
             m == MacdRule(b.macd)
             o == MomentumRule(b.momentum)
             g == BollingerRule(b.bollinger)
             e == EmaRule(b.lastPrice, b.ema)
             buyCount == r.buy + m.buy + o.buy + g.buy + e.buy
             sellCount == r.sell + m.sell + o.sell + g.sell + e.sell
         IN [thrown |-> FALSE, buyCount |-> buyCount, sellCount |-> sellCount,
             signalType |-> SignalType(buyCount, sellCount)]

\* indicator values: the return types of calculateRSI (line 37: null),
\* calculateMACD (line 55: {line: 0, signal: 0}), calculateMomentum (line 65:
\* null) and calculateBollingerBands (line 87: null), and values on both sides
\* of every threshold of the rule
RsiValues == {NullNum} \cup {Num(v) : v \in {25, 29, 30, 35, 39, 40, 50, 60, 61, 70, 71, 75}}

MacdValues == [line : 0..2, signal : 0..2]

MomentumValues == {NullNum} \cup {Num(v) : v \in {994, 995, 1000, 1005, 1006}}

\* the bands of the bundles drawn
Bands == [lower |-> 10, upper |-> 20]

PriceValues == {9, 10, 15, 20, 21}

Bollinger(p) == [isNull |-> FALSE, upper |-> Bands.upper, lower |-> Bands.lower, price |-> p]

NullBollinger == [isNull |-> TRUE, upper |-> 0, lower |-> 0, price |-> 0]

\* the bundles over the given indicator values; with absentBands the
\* Bollinger bundle is null, otherwise it is computed around the last price
BundlesOver(rsis, momenta, absentBands) ==
    {[rsi |-> r, macd |-> m, momentum |-> o,
      bollinger |-> IF g THEN NullBollinger ELSE Bollinger(p),
      ema |-> p + d, lastPrice |-> p] :
        r \in rsis, m \in MacdValues, o \in momenta, g \in absentBands,
        p \in PriceValues, d \in {-1, 0, 1}}

\* the bundles analyzeAsset computes: past the guard of line 105 the series
\* has at least 20 prices, so RSI (15), Momentum (10) and Bollinger (20) are
\* computed; MACD (26) may still be {line: 0, signal: 0}
InitVote ==
    /\ bundle \in BundlesOver(RsiValues \ {NullNum}, MomentumValues \ {NullNum}, {FALSE})
    /\ vote = <<>>
    /\ SchedIdle /\ TimeIdle /\ MomIdle

\* the rule on its own, over everything the calculators can return, absent
\* indicators included
InitVoteRule ==
    /\ bundle \in BundlesOver(RsiValues, MomentumValues, BOOLEAN)
    /\ vote = <<>>
    /\ SchedIdle /\ TimeIdle /\ MomIdle

\* analyzeAsset scores the bundle and decides the signal
CastVote ==
    /\ vote = <<>>
    /\ vote' = Vote(bundle)
    /\ UNCHANGED <<bundle, schedVars, timeVars, momVars>>

NextVote == CastVote

SpecVote == InitVote /\ [][NextVote]_vars

SpecVoteRule == InitVoteRule /\ [][NextVote]_vars

----------------------------------------------------------------------------
(* Claims about the voting rule (SpecVote) *)

Voted == vote # <<>>

RsiNeutralOrAbsent == bundle.rsi.isNull \/ (bundle.rsi.v >= RsiLow /\ bundle.rsi.v <= RsiHigh)

MacdNeutral == Abs(bundle.macd.line - bundle.macd.signal) <= MacdEpsilon

MomentumNeutral == bundle.momentum.v >= MomentumLow /\ bundle.momentum.v <= MomentumHigh

BollingerNeutral ==
    /\ bundle.bollinger.price >= bundle.bollinger.lower
    /\ bundle.bollinger.price <= bundle.bollinger.upper

\* C7 as stated: every indicator neutral or absent and lastPrice > EMA(20)
\* gives buyCount = 1, sellCount = 0 and NEUTRAL.
C7_NeutralCaseAsStated ==
    ( /\ Voted
      /\ RsiNeutralOrAbsent
      /\ MacdNeutral
      /\ bundle.momentum.isNull \/ MomentumNeutral
      /\ bundle.bollinger.isNull \/ BollingerNeutral
      /\ bundle.lastPrice > bundle.ema )
    => ( /\ ~vote.thrown
         /\ vote.buyCount = Points(1)
         /\ vote.sellCount = 0
         /\ vote.signalType = "NEUTRO" )

AllComputedAndNeutral ==
    /\ Voted
    /\ ~bundle.rsi.isNull
    /\ MacdNeutral
    /\ ~bundle.momentum.isNull /\ MomentumNeutral
    /\ ~bundle.bollinger.isNull /\ BollingerNeutral
    /\ bundle.lastPrice > bundle.ema

RsiInMidBand == bundle.rsi.v >= RsiMidLow /\ bundle.rsi.v <= RsiMidHigh

RsiInOuterBand ==
    /\ bundle.rsi.v >= RsiLow
    /\ bundle.rsi.v <= RsiHigh
    /\ ~RsiInMidBand

\* C7 amended: with RSI, Momentum and Bollinger computed, MACD within 0.001
\* (its insufficient-data value included), Momentum in [0.995, 1.005], price
\* within the bands and lastPrice > EMA(20): an RSI in [30, 40) or (60, 70]
\* gives buyCount = 1, sellCount = 0 and NEUTRAL, while an RSI in [40, 60]
\* gives buyCount = 1.5, sellCount = 0 and BUY.
C7_NeutralCase ==
    /\ (AllComputedAndNeutral /\ RsiInOuterBand) =>
          ( /\ ~vote.thrown
            /\ vote.buyCount = Points(1)
            /\ vote.sellCount = 0
            /\ vote.signalType = "NEUTRO" )
    /\ (AllComputedAndNeutral /\ RsiInMidBand) =>
          ( /\ ~vote.thrown
            /\ vote.buyCount = Points(1) + HalfPoint
            /\ vote.sellCount = 0
            /\ vote.signalType = "COMPRA" )

\* RSI 35, MACD at its insufficient-data value, flat Momentum, price inside
\* the bands and above the EMA: one point for buying, NEUTRAL
C7_Witness ==
    /\ AllComputedAndNeutral
    /\ bundle.rsi = Num(35)
    /\ bundle.macd = [line |-> 0, signal |-> 0]
    /\ bundle.momentum = Num(1000)
    /\ vote.buyCount = Points(1)
    /\ vote.signalType = "NEUTRO"

NoPoints == [buy |-> 0, sell |-> 0]

\* what the rules of the indicators that are present add up to
PresentRules ==
    LET r == IF bundle.rsi.isNull THEN NoPoints ELSE RsiRule(bundle.rsi)
        m == IF bundle.macd = [line |-> 0, signal |-> 0]
             THEN NoPoints ELSE MacdRule(bundle.macd)
        o == IF bundle.momentum.isNull THEN NoPoints ELSE MomentumRule(bundle.momentum)
        g == IF bundle.bollinger.isNull THEN NoPoints ELSE BollingerRule(bundle.bollinger)
        e == EmaRule(bundle.lastPrice, bundle.ema)
    IN [buy |-> r.buy + m.buy + o.buy + g.buy + e.buy,
        sell |-> r.sell + m.sell + o.sell + g.sell + e.sell]

----------------------------------------------------------------------------
(* calculateMomentum (lines 64-67) *)

\* line 64: period = 10
MomentumPeriod == 10

\* prices of the series drawn
SeriesPrices == {1, 2}

Min(x, y) == IF x < y THEN x ELSE y

Max(x, y) == IF x > y THEN x ELSE y

\* a relative index of Array.prototype.slice on an array of length n
SliceIndex(i, n) == IF i < 0 THEN Max(n + i, 0) ELSE Min(i, n)

\* Array.prototype.slice(b, e), indices counted from 0
Slice(s, b, e) ==
    IF SliceIndex(b, Len(s)) >= SliceIndex(e, Len(s)) THEN <<>>
    ELSE SubSeq(s, SliceIndex(b, Len(s)) + 1, SliceIndex(e, Len(s)))

\* Array.prototype.slice(b)
SliceFrom(s, b) == Slice(s, b, Len(s))

\* s[0]: undefined on the empty array
ElementZero(s) ==
    IF s = <<>> THEN [defined |-> FALSE, v |-> 0] ELSE [defined |-> TRUE, v |-> s[1]]

\* x / y on positive numbers or undefined: NaN when an operand is undefined
Divide(x, y) ==
    IF x.defined /\ y.defined THEN [kind |-> "ratio", num |-> x.v, den |-> y.v]
    ELSE [kind |-> "NaN", num |-> 0, den |-> 1]

NullResult == [kind |-> "null", num |-> 0, den |-> 1]

\* lines 64-67
calculateMomentum(p, period) ==
    IF Len(p) < period THEN NullResult
    ELSE Divide(ElementZero(SliceFrom(p, -1)),
                ElementZero(Slice(p, -period - 1, -period)))

SeriesUpTo(maxLen) == UNION {[1..n -> SeriesPrices] : n \in 0..maxLen}

InitMomentum ==
    /\ prices \in SeriesUpTo(MaxLen)
    /\ momentum = NotComputed
    /\ SchedIdle /\ TimeIdle /\ VoteIdle

ComputeMomentum ==
    /\ momentum = NotComputed
    /\ momentum' = calculateMomentum(prices, MomentumPeriod)
    /\ UNCHANGED <<prices, schedVars, timeVars, voteVars>>

NextMomentum == ComputeMomentum

SpecMomentum == InitMomentum /\ [][NextMomentum]_vars

IsFlat(p) == \A i, j \in 1..Len(p) : p[i] = p[j]

\* C9: for a series of length >= period the result is the ratio of the last
\* price to the price period+1 positions from the end, hence exactly 1.0 on a
\* flat series of any such length (length = period included); for a shorter
\* series the result is absent.
C9_MomentumRatio ==
    momentum # NotComputed =>
       /\ Len(prices) >= MomentumPeriod =>
             /\ momentum.kind = "ratio"
             /\ momentum.num = prices[Len(prices)]
             /\ Len(prices) > MomentumPeriod =>
                   momentum.den = prices[Len(prices) - MomentumPeriod]
             /\ IsFlat(prices) => momentum.num = momentum.den
       /\ Len(prices) < MomentumPeriod => momentum = NullResult

====
